---- MODULE Spec2Model ----
(***************************************************************************)
(* A model of engine.py, the Maya engine for Tank: the SceneEventWatcher   *)
(* class, refresh_engine / on_scene_event_callback, the disabled menu and  *)
(* the engine's init_engine / post_app_init / destroy_engine.              *)
(*                                                                         *)
(* The host (Maya) is the table of registered callbacks, the set of menus, *)
(* the batch flag and the scene name.  A scene event is dispatched to the  *)
(* callbacks that were registered for it when it fired, one at a time; a   *)
(* callback removed during the dispatch is not called.                     *)
(***************************************************************************)
EXTENDS Integers, Sequences, FiniteSets, TLC

\* ------------------------------------------------------------------ bounds
\* the watcher objects that exist at a time
MaxWatchers == 2

Slots == 1..MaxWatchers

\* ------------------------------------------------------------- vocabulary
kAfterOpen == "kAfterOpen"
kAfterSave == "kAfterSave"
kAfterNew == "kAfterNew"
kMayaExiting == "kMayaExiting"

\* the default of SceneEventWatcher.__init__'s scene_events argument
scene_events == <<kAfterOpen, kAfterSave, kAfterNew>>

SceneEvents == {kAfterOpen, kAfterSave, kAfterNew}

\* msg ids: every watcher object has a range of its own to draw from, so that
\* equal situations get equal ids
IdsPerWatcher == 2 * (Len(scene_events) + 1)
MsgIds == 1..(IdsPerWatcher * MaxWatchers)
IdsFor(w) == ((w - 1) * IdsPerWatcher + 1)..(w * IdsPerWatcher)

ShotgunMenu == "ShotgunMenu"
ShotgunMenuDisabled == "ShotgunMenuDisabled"

\* scene files: one inside a project and one outside of every project
ScenePaths == {"a1", "x"}
Contexts == {"ctxA", "ctxB"}
EngineNames == {"tk-maya"}

\* the toolkit instance of the project a context belongs to
TkOf(ctx) == IF ctx = "ctxA" THEN "tkA" ELSE "tkB"

\* tank.tank_from_path: "" stands for raising TankError
tank_from_path(path) ==
    IF path = "a1" THEN "tkA" ELSE ""

\* tk.context_from_path
context_from_path(path, prev_context) ==
    IF path = "a1" THEN "ctxA" ELSE prev_context

\* what tank.platform.start_engine can do: build the engine, raise
\* TankEngineInitError, or let the TankError of init_engine through
StartOutcomes == {"ok", "TankEngineInitError", "TankError"}

\* ------------------------------------------------------------------ state
VARIABLES
    batch,        \* cmds.about(batch=True)
    sceneName,    \* pm.sceneName()
    menus,        \* the menus that exist in the main window
    callbacks,    \* the host's callback table: msg id -> [watcher, event]
    watchers,     \* the SceneEventWatcher objects, by slot
    engine,       \* tank.platform.current_engine()
    engines,      \* how many engines are initialized and not destroyed
    pending,      \* msg ids the host still has to call for the current event
    exiting,      \* Maya is exiting
    last,         \* what the latest operation did and returned
    before        \* the callbacks and menus before the engine's start, kept
                  \* while nothing but the engine's start and destroy happens

vars ==
    <<batch, sceneName, menus, callbacks, watchers, engine, engines, pending,
      exiting, last, before>>

NoCb == [en |-> "", pc |-> "", mn |-> ""]

NoWatcher ==
    [made |-> FALSE, cb_fn |-> NoCb, run_once |-> FALSE,
     message_ids |-> <<>>, fired |-> FALSE]

NoEngine ==
    [instance_name |-> "", context |-> "", sgtk |-> "",
     menu_name |-> "", automatic_context_switch |-> FALSE,
     watcher |-> 0, menu_handle |-> ""]

Range(s) == {s[i] : i \in 1..Len(s)}

Min(S) == CHOOSE x \in S : \A y \in S : x <= y

\* the part of the state a handler works on; most is the most engines that
\* ran at a time since the handler began
Here ==
    [callbacks |-> callbacks, watchers |-> watchers, menus |-> menus,
     engine |-> engine, engines |-> engines, most |-> engines]

\* the callbacks of watcher w that the host holds
CallbacksOf(cbs, w) == {i \in DOMAIN cbs : cbs[i].watcher = w}

\* ------------------------------------------------------- SceneEventWatcher
\* OpenMaya.MMessage.removeCallback
removeCallback(cbs, msg_id) ==
    [i \in DOMAIN cbs \ {msg_id} |-> cbs[i]]

RECURSIVE removeAll(_, _)
removeAll(cbs, ids) ==
    IF ids = <<>> THEN cbs
    ELSE removeAll(removeCallback(cbs, Head(ids)), Tail(ids))

\* stop_watching that forgets its message ids without removing the callbacks
stop_watching_forgets(S, w) ==
    [S EXCEPT !.watchers[w].message_ids = <<>>]

\* SceneEventWatcher.stop_watching
stop_watching(S, w) ==
    [S EXCEPT !.callbacks = removeAll(S.callbacks, S.watchers[w].message_ids),
              !.watchers[w].message_ids = <<>>]

\* the id OpenMaya.MSceneMessage.addCallback hands out: one that no live
\* callback has and that the running dispatch does not hold
NewMsgId(cbs, w) == Min(IdsFor(w) \ (DOMAIN cbs \cup pending))

\* OpenMaya.MSceneMessage.addCallback followed by the append to __message_ids
addCallback(S, ev, w) ==
    LET msg_id == NewMsgId(S.callbacks, w)
    IN [S EXCEPT
          !.callbacks = [i \in DOMAIN S.callbacks \cup {msg_id} |->
                           IF i = msg_id THEN [watcher |-> w, event |-> ev]
                           ELSE S.callbacks[i]],
          !.watchers[w].message_ids = Append(@, msg_id)]

\* the loop of start_watching: a registration that raises is skipped
RECURSIVE addSceneCallbacks(_, _, _, _)
addSceneCallbacks(S, evs, w, raising) ==
    IF evs = <<>> THEN S
    ELSE addSceneCallbacks(
           IF Head(evs) \in raising THEN S ELSE addCallback(S, Head(evs), w),
           Tail(evs), w, raising)

\* start_watching that does not stop the watching in progress first
start_watching_without_stop(S, w, raising) ==
    addCallback(addSceneCallbacks(S, scene_events, w, raising), kMayaExiting, w)

\* SceneEventWatcher.start_watching; raising is the set of scene events whose
\* addCallback raises
start_watching(S, w, raising) ==
    addCallback(addSceneCallbacks(stop_watching(S, w), scene_events, w, raising),
                kMayaExiting, w)

\* a watcher that nothing refers to any more: not registered, not the engine's
Dead(S, w) ==
    /\ S.watchers[w].made
    /\ S.watchers[w].message_ids = <<>>
    /\ CallbacksOf(S.callbacks, w) = {}
    /\ S.engine.watcher # w

\* the slot of a new watcher object; running is the watcher whose callback is
\* on the stack (0 for none)
FreeSlots(S, running) ==
    {w \in Slots \ {running} : ~S.watchers[w].made \/ Dead(S, w)}

NewSlot(S, running) == Min(FreeSlots(S, running))

\* SceneEventWatcher.__init__, at slot w
SceneEventWatcher(S, w, cb_fn, run_once, raising) ==
    start_watching(
      [S EXCEPT !.watchers[w] =
          [made |-> TRUE, cb_fn |-> cb_fn, run_once |-> run_once,
           message_ids |-> <<>>, fired |-> FALSE]],
      w, raising)

\* ----------------------------------------------------------- disabled menu
\* create_sgtk_disabled_menu with the batch test the wrong way round
create_sgtk_disabled_menu_in_batch(S, menu_name) ==
    IF ~batch THEN S
    ELSE [S EXCEPT !.menus = (@ \ {ShotgunMenu}) \cup {ShotgunMenuDisabled}]

\* create_sgtk_disabled_menu
create_sgtk_disabled_menu(S, menu_name) ==
    IF batch THEN S
    ELSE [S EXCEPT !.menus = (@ \ {ShotgunMenu}) \cup {ShotgunMenuDisabled}]

\* remove_sgtk_disabled_menu: the state after it and what it returns
remove_sgtk_disabled_menu(S) ==
    IF batch THEN [S |-> S, ret |-> FALSE]
    ELSE IF ShotgunMenuDisabled \in S.menus
         THEN [S |-> [S EXCEPT !.menus = @ \ {ShotgunMenuDisabled}], ret |-> TRUE]
         ELSE [S |-> S, ret |-> FALSE]

\* ------------------------------------------------------------------ engine
\* has_ui that does not look at the batch mode
has_ui_always == TRUE

\* MayaEngine.has_ui
has_ui == ~batch

\* MayaEngine.init_engine, from the menu name on; cfg holds the settings
\* automatic_context_switch and use_sgtk_as_menu_name, w is the slot of the
\* watcher it may construct
init_engine(S, w, cfg, raising) ==
    LET menu_name == IF cfg.use_sgtk_as_menu_name THEN "Sgtk" ELSE "Shotgun"
        S1 == [S EXCEPT !.engine.menu_name = menu_name,
                        !.engine.automatic_context_switch = cfg.automatic_context_switch]
        cb_fn == [en |-> S.engine.instance_name, pc |-> S.engine.context,
                  mn |-> menu_name]
    IN IF cfg.automatic_context_switch
       THEN SceneEventWatcher([S1 EXCEPT !.engine.watcher = w], w, cb_fn, FALSE, raising)
       ELSE S1

\* MayaEngine.post_app_init
post_app_init(S) ==
    IF has_ui
    THEN [S EXCEPT !.menus = @ \cup {ShotgunMenu}, !.engine.menu_handle = ShotgunMenu]
    ELSE S

\* destroy_engine that leaves the watcher watching
destroy_engine_keeps_watching(S) ==
    IF has_ui /\ S.engine.menu_handle \in S.menus
    THEN [S EXCEPT !.menus = @ \ {S.engine.menu_handle}]
    ELSE S

\* MayaEngine.destroy_engine
destroy_engine(S) ==
    LET S1 == IF S.engine.automatic_context_switch
              THEN stop_watching(S, S.engine.watcher)
              ELSE S
    IN IF has_ui /\ S1.engine.menu_handle \in S1.menus
       THEN [S1 EXCEPT !.menus = @ \ {S1.engine.menu_handle}]
       ELSE S1

\* current_engine.destroy(): destroy_engine, then no engine is current
destroy(S) ==
    [destroy_engine(S) EXCEPT !.engine = NoEngine, !.engines = @ - 1]

\* tank.platform.start_engine(engine_name, tk, ctx) when it succeeds: the new
\* engine becomes current and runs init_engine and post_app_init
start_engine(S, engine_name, tk, ctx, w, cfg, raising) ==
    LET S1 == [S EXCEPT !.engine =
                 [NoEngine EXCEPT !.instance_name = engine_name,
                                  !.context = ctx, !.sgtk = tk],
                        !.engines = @ + 1,
                        !.most = IF S.engines + 1 > @ THEN S.engines + 1 ELSE @]
    IN post_app_init(init_engine(S1, w, cfg, raising))

\* ---------------------------------------------------------- refresh_engine
\* what refresh_engine did: the state it leaves, the exception it raised (""
\* for none), the exception it caught, what it returned (the local
\* current_engine, the local new_engine of a successful start, or None) and
\* the calls it made: tank_from_path (resolved), current_engine.destroy,
\* start_engine (started) and create_sgtk_disabled_menu (built)
Outcome(S, raised, caught, ret, mwd, resolved, destroyed, started, built) ==
    [S |-> S, raised |-> raised, caught |-> caught, ret |-> ret,
     menu_was_disabled |-> mwd, resolved |-> resolved, destroyed |-> destroyed,
     started |-> started, built |-> built]

\* the test of the unchanged context with the "not" lost
same_engine_if_disabled(ctx, prev_context, menu_was_disabled) ==
    ctx = prev_context /\ menu_was_disabled

\* "if ctx == prev_context and not menu_was_disabled"
same_engine_will_do(ctx, prev_context, menu_was_disabled) ==
    ctx = prev_context /\ ~menu_was_disabled

\* refresh_engine that starts the new engine without tearing down the
\* existing one
rebuild_engine_without_destroy(S, current_engine, mwd, resolved, engine_name, prev_context, menu_name, tk, ctx, w, in) ==
    IF current_engine # NoEngine /\ same_engine_will_do(ctx, prev_context, mwd)
    THEN Outcome(S, "", "", "current_engine", mwd, resolved, FALSE, FALSE, FALSE)
    ELSE CASE in.outcome = "ok" ->
                LET S2 == start_engine(S, engine_name, tk, ctx,
                                       w, in.cfg, in.raising)
                IN Outcome(S2, "", "", "new_engine", mwd, resolved, TRUE,
                           TRUE, FALSE)
           [] in.outcome = "TankEngineInitError" ->
                Outcome(create_sgtk_disabled_menu(S, menu_name), "",
                        "TankEngineInitError", "None",
                        mwd, resolved, TRUE, TRUE, TRUE)
           [] OTHER ->
                Outcome(S, in.outcome, "", "", mwd, resolved, TRUE, TRUE, FALSE)

\* refresh_engine from "if current_engine:" on (lines 141-164)
rebuild_engine(S, current_engine, mwd, resolved, engine_name, prev_context, menu_name, tk, ctx, w, in) ==
    IF current_engine # NoEngine /\ same_engine_will_do(ctx, prev_context, mwd)
    THEN Outcome(S, "", "", "current_engine", mwd, resolved, FALSE, FALSE, FALSE)
    ELSE LET destroyed == current_engine # NoEngine
             S1 == IF destroyed THEN destroy(S) ELSE S
         IN CASE in.outcome = "ok" ->
                   LET S2 == start_engine(S1, engine_name, tk, ctx,
                                          w, in.cfg, in.raising)
                   IN Outcome(S2, "", "", "new_engine", mwd, resolved, destroyed,
                              TRUE, FALSE)
              [] in.outcome = "TankEngineInitError" ->
                   Outcome(create_sgtk_disabled_menu(S1, menu_name), "",
                           "TankEngineInitError", "None",
                           mwd, resolved, destroyed, TRUE, TRUE)
              [] OTHER ->
                   Outcome(S1, in.outcome, "", "", mwd, resolved, destroyed,
                           TRUE, FALSE)

\* refresh_engine(engine_name, prev_context, menu_name)
refresh_engine(S, engine_name, prev_context, menu_name, w, in) ==
    LET current_engine == S.engine
        removed == remove_sgtk_disabled_menu(S)
        S1 == removed.S
        mwd == removed.ret
    IN IF current_engine = NoEngine
       THEN \* tk = current_engine.sgtk, of None
            Outcome(S1, "AttributeError", "", "", mwd, FALSE, FALSE, FALSE, FALSE)
       ELSE IF sceneName = ""
       THEN IF ~mwd
            THEN Outcome(S1, "", "", "current_engine", mwd, FALSE, FALSE, FALSE,
                         FALSE)
            ELSE rebuild_engine(S1, current_engine, mwd, FALSE, engine_name,
                                prev_context, menu_name, current_engine.sgtk,
                                prev_context, w, in)
       ELSE IF tank_from_path(sceneName) = ""
       THEN Outcome(create_sgtk_disabled_menu(S1, menu_name), "", "TankError",
                    "current_engine", mwd, TRUE, FALSE, FALSE, TRUE)
       ELSE rebuild_engine(S1, current_engine, mwd, TRUE, engine_name,
                           prev_context, menu_name, tank_from_path(sceneName),
                           context_from_path(sceneName, prev_context), w, in)

\* the exceptions refresh_engine raises: AttributeError and TankError
Exceptions == {"AttributeError", "TankError"}

\* an except clause that catches the toolkit's errors only
except_TankError(exc) == exc = "TankError"

\* "except Exception": both are subclasses of Exception
except_Exception(exc) == exc \in Exceptions

\* a watcher for the future events that is not run_once
watch_future_events_always(S, w, engine_name, prev_context, menu_name, raising) ==
    SceneEventWatcher(S, w, [en |-> engine_name, pc |-> prev_context,
                             mn |-> menu_name], FALSE, raising)

\* the watcher on_scene_event_callback registers when it has no engine
watch_future_events(S, w, engine_name, prev_context, menu_name, raising) ==
    SceneEventWatcher(S, w, [en |-> engine_name, pc |-> prev_context,
                             mn |-> menu_name], TRUE, raising)

\* on_scene_event_callback(engine_name, prev_context, menu_name): what
\* refresh_engine did (r), the error it displayed, the exception it let
\* through ("" for none), the run_once watcher it registered (0 for none) and
\* the state it leaves
on_scene_event_callback(S, engine_name, prev_context, menu_name, w, in) ==
    LET r == refresh_engine(S, engine_name, prev_context, menu_name, w, in)
        handled == r.raised # "" /\ except_Exception(r.raised)
        escaped == r.raised # "" /\ ~except_Exception(r.raised)
        new_engine == IF handled THEN "None" ELSE r.ret
        no_engine == ~escaped
                     /\ \/ new_engine = "None"
                        \/ (new_engine = "current_engine" /\ S.engine = NoEngine)
    IN [r |-> r,
        displayError |-> handled,
        escaped |-> IF escaped THEN r.raised ELSE "",
        new_watcher |-> IF no_engine THEN w ELSE 0,
        S |-> IF no_engine
              THEN watch_future_events(r.S, w, engine_name, prev_context,
                                       menu_name, in.raising)
              ELSE r.S]

\* ----------------------------------------------------------------- actions
NoLast ==
    [op |-> "none", w |-> 0, was_watching |-> FALSE, raising |-> {},
     raised |-> "", caught |-> "", ret |-> "", menu_was_disabled |-> FALSE,
     resolved |-> FALSE, destroyed |-> FALSE, started |-> FALSE,
     built |-> FALSE, displayError |-> FALSE,
     escaped |-> "", new_watcher |-> 0, most |-> 0]

\* the settings of an engine; the menu name is the default one
Configs == [automatic_context_switch : BOOLEAN, use_sgtk_as_menu_name : {FALSE}]

\* the sets of scene events whose registration can raise in one start_watching
Raising == {{}, {kAfterSave}}

Inputs == [outcome : StartOutcomes, cfg : Configs, raising : Raising]

NoBefore == [valid |-> FALSE, callbacks |-> <<>>, menus |-> {}]

Init ==
    /\ batch \in BOOLEAN
    /\ sceneName = ""
    /\ menus = {}
    /\ callbacks = <<>>
    /\ watchers = [w \in Slots |-> NoWatcher]
    /\ engine = NoEngine
    /\ engines = 0
    /\ pending = {}
    /\ exiting = FALSE
    /\ last = NoLast
    /\ before = NoBefore

Idle == pending = {} /\ ~exiting

\* a watcher that nothing refers to is gone; the one that ran last is kept
\* for one more step
Collect(S, ran) ==
    [w \in Slots |-> IF Dead(S, w) /\ w # ran THEN NoWatcher ELSE S.watchers[w]]

\* the state S becomes the program's state, after the watcher ran has run
Becomes(S, ran) ==
    /\ callbacks' = S.callbacks
    /\ watchers' = Collect(S, ran)
    /\ menus' = S.menus
    /\ engine' = S.engine
    /\ engines' = S.engines

\* the host fires a scene event: a file is opened or saved, or file->new
SceneEvent ==
    /\ Idle
    /\ \E ev \in SceneEvents, path \in ScenePaths :
         /\ sceneName' = IF ev = kAfterNew THEN "" ELSE path
         /\ pending' = {i \in DOMAIN callbacks : callbacks[i].event = ev}
         /\ last' = [NoLast EXCEPT !.op = "scene_event"]
    /\ before' = NoBefore
    /\ UNCHANGED <<batch, menus, callbacks, watchers, engine, engines, exiting>>

\* the host exits
MayaExiting ==
    /\ Idle
    /\ exiting' = TRUE
    /\ pending' = {i \in DOMAIN callbacks : callbacks[i].event = kMayaExiting}
    /\ last' = [NoLast EXCEPT !.op = "exiting"]
    /\ before' = NoBefore
    /\ UNCHANGED <<batch, sceneName, menus, callbacks, watchers, engine, engines>>

\* __scene_event_callback without the stop of a run_once watcher
scene_event_callback_never_stops(S, w, slot, in) ==
    LET S2 == [S EXCEPT !.watchers[w].fired = TRUE]
        cb_fn == S.watchers[w].cb_fn
    IN on_scene_event_callback(S2, cb_fn.en, cb_fn.pc, cb_fn.mn, slot, in)

\* SceneEventWatcher.__scene_event_callback(watcher), with the cb_fn that this
\* program gives its watchers: on_scene_event_callback
scene_event_callback(S, w, slot, in) ==
    LET S1 == IF S.watchers[w].run_once THEN stop_watching(S, w) ELSE S
        S2 == [S1 EXCEPT !.watchers[w].fired = TRUE]
        cb_fn == S.watchers[w].cb_fn
    IN on_scene_event_callback(S2, cb_fn.en, cb_fn.pc, cb_fn.mn, slot, in)

SceneEventCallback ==
    \E i \in pending, in \in Inputs :
        LET w == callbacks[i].watcher
            c == scene_event_callback(Here, w, NewSlot(Here, w), in)
        IN /\ callbacks[i].event \in SceneEvents
           /\ FreeSlots(Here, w) # {}
           /\ Becomes(c.S, w)
           /\ pending' = (pending \ {i}) \cap DOMAIN c.S.callbacks
           /\ last' = [op |-> "callback", w |-> w, was_watching |-> TRUE,
                       raising |-> {},
                       raised |-> c.r.raised, caught |-> c.r.caught,
                       ret |-> c.r.ret,
                       menu_was_disabled |-> c.r.menu_was_disabled,
                       resolved |-> c.r.resolved, destroyed |-> c.r.destroyed,
                       started |-> c.r.started, built |-> c.r.built,
                       displayError |-> c.displayError, escaped |-> c.escaped,
                       new_watcher |-> c.new_watcher, most |-> c.S.most]
           /\ before' = NoBefore
           /\ UNCHANGED <<batch, sceneName, exiting>>

\* SceneEventWatcher.__maya_exiting_callback(watcher)
maya_exiting_callback(S, w) == stop_watching(S, w)

MayaExitingCallback ==
    \E i \in pending :
        LET w == callbacks[i].watcher
            S == maya_exiting_callback(Here, w)
        IN /\ callbacks[i].event = kMayaExiting
           /\ Becomes(S, w)
           /\ pending' = (pending \ {i}) \cap DOMAIN S.callbacks
           /\ last' = [NoLast EXCEPT !.op = "exit_callback", !.w = w,
                                     !.was_watching = watchers[w].message_ids # <<>>]
           /\ before' = NoBefore
           /\ UNCHANGED <<batch, sceneName, exiting>>

\* start_watching() on the watcher of the running engine
StartWatching ==
    /\ Idle
    /\ engine.watcher # 0
    /\ \E raising \in Raising :
         /\ Becomes(start_watching(Here, engine.watcher, raising), 0)
         /\ last' = [NoLast EXCEPT !.op = "start_watching", !.w = engine.watcher,
                                   !.was_watching =
                                       watchers[engine.watcher].message_ids # <<>>,
                                   !.raising = raising]
    /\ before' = NoBefore
    /\ UNCHANGED <<batch, sceneName, pending, exiting>>

\* stop_watching() on the watcher of the running engine
StopWatching ==
    /\ Idle
    /\ engine.watcher # 0
    /\ Becomes(stop_watching(Here, engine.watcher), 0)
    /\ last' = [NoLast EXCEPT !.op = "stop_watching", !.w = engine.watcher,
                              !.was_watching =
                                  watchers[engine.watcher].message_ids # <<>>]
    /\ before' = NoBefore
    /\ UNCHANGED <<batch, sceneName, pending, exiting>>

\* the toolkit's bootstrap starts the engine when none runs
StartEngine ==
    /\ Idle
    /\ engine = NoEngine
    /\ FreeSlots(Here, 0) # {}
    /\ \E en \in EngineNames, ctx \in Contexts, in \in Inputs :
         /\ in.outcome = "ok"
         /\ Becomes(start_engine(Here, en, TkOf(ctx), ctx,
                                 NewSlot(Here, 0), in.cfg, in.raising), 0)
         /\ last' = [NoLast EXCEPT !.op = "start_engine",
                                   !.started = TRUE]
    /\ before' = [valid |-> TRUE, callbacks |-> callbacks, menus |-> menus]
    /\ UNCHANGED <<batch, sceneName, pending, exiting>>

\* engine.destroy() on the running engine
DestroyEngine ==
    /\ Idle
    /\ engine # NoEngine
    /\ Becomes(destroy(Here), 0)
    /\ last' = [NoLast EXCEPT !.op = "destroy", !.w = engine.watcher,
                              !.destroyed = TRUE]
    /\ UNCHANGED <<batch, sceneName, pending, exiting, before>>

\* the engine's context is changed without a restart (the toolkit's
\* change_context, which context_change_allowed permits)
ChangeContext ==
    /\ Idle
    /\ engine # NoEngine
    /\ \E ctx \in Contexts \ {engine.context} :
         engine' = [engine EXCEPT !.context = ctx]
    /\ last' = [NoLast EXCEPT !.op = "change_context"]
    /\ before' = NoBefore
    /\ UNCHANGED <<batch, sceneName, menus, callbacks, watchers, engines, pending,
                   exiting>>

Next ==
    \/ SceneEvent
    \/ MayaExiting
    \/ SceneEventCallback
    \/ MayaExitingCallback
    \/ StartWatching
    \/ StopWatching
    \/ StartEngine
    \/ DestroyEngine
    \/ ChangeContext

Spec == Init /\ [][Next]_vars

\* ------------------------------------------------------------------ claims
\* the callbacks of watcher w that the host holds for the event ev
EventsIn(cbs, w, ev) == {i \in CallbacksOf(cbs, w) : cbs[i].event = ev}

EventsOf(w, ev) == EventsIn(callbacks, w, ev)

NoDuplicates(s) == Cardinality(Range(s)) = Len(s)

\* a run_once watcher that has fired is not registered for anything
C1_FiredIsCleanedUp ==
    \A w \in Slots :
        (watchers[w].run_once /\ watchers[w].fired)
        => /\ watchers[w].message_ids = <<>>
           /\ CallbacksOf(callbacks, w) = {}

\* the callback function of a run_once watcher runs only if it never ran, and
\* leaves the watcher cleaned up
C1_FiresOnce ==
    \A w \in Slots :
        (last'.op = "callback" /\ last'.w = w /\ watchers[w].run_once)
        => /\ ~watchers[w].fired
           /\ watchers'[w].fired
           /\ watchers'[w].message_ids = <<>>
           /\ CallbacksOf(callbacks', w) = {}

\* C1: once the first scene event of a run_once watcher has fired, its list of
\* message ids is empty and the host holds no callback of it, so that it
\* invokes its callback function at most once
C1_RunOnceCleansUp == []C1_FiredIsCleanedUp /\ [][C1_FiresOnce]_vars

C1_Witness ==
    \E w \in Slots :
        /\ last.op = "callback" /\ last.w = w
        /\ watchers[w].run_once /\ watchers[w].fired
        /\ watchers[w].message_ids = <<>>

Stops == {"stop_watching", "exit_callback"}

\* after stop_watching the watcher has no message id and the host no callback
\* of it; a watcher without message ids has nothing the host could call
C2_StoppedIsUnregistered ==
    /\ last.op \in Stops
       => /\ watchers[last.w].message_ids = <<>>
          /\ CallbacksOf(callbacks, last.w) = {}
    /\ \A w \in Slots :
          watchers[w].message_ids = <<>> => CallbacksOf(callbacks, w) = {}

\* a callback function runs only for a watcher that is watching, and
\* stop_watching on a watcher that is not watching changes nothing
C2_Step ==
    /\ last'.op = "callback" => watchers[last'.w].message_ids # <<>>
    /\ (last'.op \in Stops /\ watchers[last'.w].message_ids = <<>>)
       => /\ callbacks' = callbacks
          /\ watchers'[last'.w] = watchers[last'.w]
          /\ menus' = menus
          /\ engine' = engine

\* C2: stop_watching, called directly or by the Maya-exiting callback,
\* removes every callback of the watcher from the host and empties its list of
\* message ids; until the next start_watching no scene event invokes its
\* callback function; on a watcher that is not watching it does nothing
C2_StopWatching == []C2_StoppedIsUnregistered /\ [][C2_Step]_vars

C2_Witness ==
    /\ last.op = "stop_watching" /\ last.was_watching
    /\ engine.watcher = last.w
    /\ watchers[last.w].message_ids = <<>>

Runs(w) == last'.op = "callback" /\ last'.w = w

\* refresh_engine returns the running engine and leaves it alone
KeepsEngine ==
    /\ last'.raised = ""
    /\ last'.ret = "current_engine"
    /\ ~last'.destroyed
    /\ ~last'.started
    /\ engine' = engine

\* C4: with an engine running, a scene file that resolves to the previous
\* context and no disabled menu, refresh_engine returns the running engine
\* and neither destroys nor starts an engine
C4_SameContextKeepsEngine ==
    [][\A w \in Slots :
         ( /\ Runs(w)
           /\ engine # NoEngine
           /\ sceneName # ""
           /\ tank_from_path(sceneName) # ""
           /\ context_from_path(sceneName, watchers[w].cb_fn.pc)
                = watchers[w].cb_fn.pc
           /\ ShotgunMenuDisabled \notin menus )
         => KeepsEngine]_vars

C4_Witness ==
    /\ last.op = "callback"
    /\ last.resolved /\ last.caught = "" /\ ~last.menu_was_disabled
    /\ last.ret = "current_engine"
    /\ engine # NoEngine
    /\ sceneName = "a1"

\* C5: on file->new without a disabled menu refresh_engine returns the
\* current engine, resolves no path and neither destroys nor starts an engine
C5_FileNewKeepsEngine ==
    [][\A w \in Slots :
         (Runs(w) /\ sceneName = "" /\ ShotgunMenuDisabled \notin menus)
         => (KeepsEngine /\ ~last'.resolved)]_vars

\* C6: when tank_from_path raises TankError, refresh_engine builds the
\* disabled menu (outside batch mode), returns the current engine and neither
\* destroys it nor starts an engine
C6_UnresolvedPathDisablesMenu ==
    [][\A w \in Slots :
         ( /\ Runs(w)
           /\ last'.resolved
           /\ tank_from_path(sceneName) = "" )
         => /\ KeepsEngine
            /\ last'.built
            /\ ~batch => ShotgunMenuDisabled \in menus']_vars

C6_Witness ==
    /\ last.op = "callback"
    /\ last.caught = "TankError" /\ last.ret = "current_engine"
    /\ ~batch /\ ShotgunMenuDisabled \in menus
    /\ engine # NoEngine

\* on_scene_event_callback ended without an engine
EndsWithoutEngine ==
    last'.op = "callback" /\ (last'.raised # "" \/ last'.ret = "None")

\* it registered a run_once watcher with the arguments of the callback that ran
WatchesOn ==
    LET nw == last'.new_watcher
    IN /\ nw \in Slots
       /\ watchers'[nw].made
       /\ watchers'[nw].run_once
       /\ ~watchers'[nw].fired
       /\ watchers'[nw].cb_fn = watchers[last'.w].cb_fn
       /\ EventsIn(callbacks', nw, kAfterOpen) # {}
       /\ EventsIn(callbacks', nw, kMayaExiting) # {}

\* the claim as written: the disabled menu exists after the TankEngineInitError
C7_InitErrorBuildsMenu ==
    (last.op = "callback" /\ last.caught = "TankEngineInitError")
    => (ShotgunMenuDisabled \in menus /\ last.ret = "None")

C7_InitErrorReturnsNone ==
    (last.op = "callback" /\ last.caught = "TankEngineInitError")
    => /\ ~batch => ShotgunMenuDisabled \in menus
       /\ last.built
       /\ last.ret = "None"
       /\ engine = NoEngine

\* C7: when start_engine raises TankEngineInitError, refresh_engine builds the
\* disabled menu outside batch mode and returns no engine; whenever
\* on_scene_event_callback ends without an engine it registers a run_once
\* watcher with the same engine name, previous context and menu name
C7_NoEngineWatchesOn ==
    []C7_InitErrorReturnsNone /\ [][EndsWithoutEngine => WatchesOn]_vars

C7_Witness ==
    /\ last.op = "callback"
    /\ last.caught = "TankEngineInitError"
    /\ ~batch /\ ShotgunMenuDisabled \in menus
    /\ last.new_watcher \in Slots
    /\ watchers[last.new_watcher].run_once

\* C8: an exception raised in refresh_engine does not leave
\* on_scene_event_callback: an error is displayed and the run_once watcher is
\* registered
C8_ExceptionsAreHandled ==
    (last.op = "callback" /\ last.raised # "")
    => /\ last.escaped = ""
       /\ last.displayError
       /\ last.new_watcher \in Slots
       /\ watchers[last.new_watcher].made
       /\ watchers[last.new_watcher].run_once
       /\ CallbacksOf(callbacks, last.new_watcher) # {}

C8_Witness ==
    /\ last.op = "callback"
    /\ last.raised = "TankError" /\ last.destroyed
    /\ last.displayError
    /\ last.new_watcher \in Slots

\* destroy right after the start leaves the callbacks and menus of before
C9_RoundTrip ==
    (last.op = "destroy" /\ before.valid)
    => (callbacks = before.callbacks /\ menus = before.menus)

\* after the engine's destroy its watcher has no callback in the host and,
\* unless a new engine made it again, the ShotgunMenu is gone
C9_Destroyed ==
    last'.destroyed
    => /\ engine.automatic_context_switch
          => CallbacksOf(callbacks', engine.watcher) = {}
       /\ (has_ui /\ last'.ret # "new_engine") => ShotgunMenu \notin menus'

\* C9: after destroy_engine none of the callbacks of the engine's watcher is
\* registered and, with a UI, the ShotgunMenu does not exist; the engine's
\* start followed by its destroy leaves the callbacks and the menus as before
C9_DestroyUndoesInit == []C9_RoundTrip /\ [][C9_Destroyed]_vars

C9_Witness ==
    /\ last.op = "destroy" /\ before.valid
    /\ last.w \in Slots
    /\ ~batch
    /\ callbacks = before.callbacks

\* remove_sgtk_disabled_menu returns whether it deleted the menu, and the
\* menu is gone unless create_sgtk_disabled_menu made it again
C10_Remove ==
    last'.op = "callback"
    => /\ last'.menu_was_disabled = (~batch /\ ShotgunMenuDisabled \in menus)
       /\ ~last'.built => ShotgunMenuDisabled \notin menus'

\* C10: in batch mode no menu is created or deleted and
\* remove_sgtk_disabled_menu returns False; outside batch mode it returns
\* True exactly when the disabled menu existed, which is gone afterwards
C10_BatchHasNoMenus ==
    /\ [](batch => (menus = {} /\ ~last.menu_was_disabled
                     /\ engine.menu_handle = ""))
    /\ [][(batch => menus' = menus) /\ C10_Remove]_vars

C10_Witness ==
    /\ batch
    /\ last.op = "callback" /\ last.built
    /\ menus = {}

\* the engine that refresh_engine starts, when the start succeeds
StartsWith(tk, ctx) ==
    last'.ret = "new_engine" => (engine'.sgtk = tk /\ engine'.context = ctx)

\* refresh_engine rebuilds only for a changed context or a disabled menu, and
\* tears the running engine down before it starts another
C11_DestroysFirst(w) ==
    /\ engine # NoEngine
    /\ last'.destroyed
    /\ last'.most <= 1
    /\ \/ ShotgunMenuDisabled \in menus
       \/ context_from_path(sceneName, watchers[w].cb_fn.pc)
            # watchers[w].cb_fn.pc

OneEngine == engines <= 1 /\ (engines = 1 <=> engine # NoEngine)

\* the claim as written: every rebuild starts the engine with the toolkit
\* instance and the context of the loaded scene path
C11_RebuildFromScenePath ==
    [][\A w \in Slots :
         (Runs(w) /\ last'.started)
         => /\ C11_DestroysFirst(w)
            /\ last'.resolved
            /\ StartsWith(tank_from_path(sceneName),
                          context_from_path(sceneName, watchers[w].cb_fn.pc))]_vars

C11_Step ==
    \A w \in Slots :
        (Runs(w) /\ last'.started)
        => /\ C11_DestroysFirst(w)
           /\ last'.resolved <=> sceneName # ""
           /\ IF sceneName = ""
              THEN StartsWith(engine.sgtk, watchers[w].cb_fn.pc)
              ELSE StartsWith(tank_from_path(sceneName),
                              context_from_path(sceneName, watchers[w].cb_fn.pc))

\* C11: when refresh_engine rebuilds, it destroys the current engine before
\* it starts the new one, with the toolkit instance and context of the loaded
\* scene path or, on file->new, with the current engine's toolkit instance
\* and the previous context; at most one engine runs at a time
C11_RebuildsOneEngine == []OneEngine /\ [][C11_Step]_vars

C11_Witness ==
    /\ last.op = "callback"
    /\ last.destroyed /\ last.ret = "new_engine"
    /\ sceneName = "" /\ last.menu_was_disabled
    /\ engines = 1 /\ engine # NoEngine

\* C12: a scene event handled while an engine runs compares the new context
\* with the context of the running engine
C12_PrevContextIsCurrent ==
    [][\A w \in Slots :
         (Runs(w) /\ engine # NoEngine)
         => watchers[w].cb_fn.pc = engine.context]_vars

====
